---- MODULE Spec2Model ----
(***************************************************************************)
(* Inventory, stock statistics and store-credit model of the retail        *)
(* operations server (server/storage.ts, server/routes.ts).                *)
(*                                                                         *)
(* The relational store is a record D of tables; every storage method is   *)
(* an operator from a store to a store, composed exactly as the method     *)
(* composes its awaited calls.  Spec runs the inventory handlers one at a  *)
(* time; DiscountSpec runs the store-credit handlers; CatalogSpec runs the *)
(* product handlers over priced products; DialogSpec runs the return       *)
(* dialog of the client (create-return-dialog.tsx).                        *)
(***************************************************************************)
EXTENDS Integers, Sequences, FiniteSets, TLC

\* ---------------------------------------------------------------- bounds
MaxProducts == 1        \* product ids ever handed out
MaxStock    == 4        \* largest stockQuantity explored
MaxQty      == 2        \* largest item / movement quantity explored
MaxItems    == 2        \* most items in one order or return
MaxMoves    == 2        \* longest stock-movement ledger explored
MaxOrders   == 1        \* most orders explored
MaxReturns  == 1        \* most returns explored
MaxCodes    == 2        \* discount codes ever minted
MaxCents    == 3        \* largest credit minted, in cents
MaxCatalogProducts == 2 \* product ids ever handed out in the catalog
MaxSkus     == 2        \* distinct SKUs explored
MaxPrice    == 2        \* largest price / cost price explored, in units
MaxCatalogStock == 2    \* largest initial stock explored in the catalog
MaxDialogProducts == 2  \* products the return dialog knows of
MaxRequests == 2        \* requests in flight at once

\* Money is counted in thousandths of a currency unit, so that amounts
\* strictly between two cents exist.
Epsilon == 10           \* the 0.01 of useDiscountCode
Unit    == 100 * Epsilon \* one currency unit

ProductIds == 1..MaxProducts
Quantities == 1..MaxQty
Reasons    == {"purchase", "Purchase"}

VARIABLES
  products,        \* products table: id -> [sku, price, costPrice,
                   \* stockQuantity]
  stockStats,      \* stock_stats table, in insertion order
  stockMovements,  \* stock_movements table, in insertion order
  orders,          \* orders table
  orderItems,      \* order_items table
  returns,         \* returns table
  returnItems,     \* return_items table
  nextProductId,   \* ids already handed out by randomUUID() are never reused
  accounts,        \* accounts table, in insertion order
  discountCodes,   \* discount_codes table
  nextCode,        \* codes already minted are never reused
  dialog,          \* the return dialog of the client: its order, its
                   \* product list and its returnItems state
  procs,           \* the requests in flight: the handler each runs, the
                   \* statement it is at and its local variables
  last             \* the last completed call: its name, arguments, result
                   \* and the tables as they were when it started

vars == <<products, stockStats, stockMovements, orders, orderItems, returns,
          returnItems, nextProductId, accounts, discountCodes, nextCode,
          dialog, procs, last>>

invVars  == <<products, stockStats, stockMovements, orders, orderItems,
              returns, returnItems, nextProductId, accounts>>
discVars == <<discountCodes, nextCode>>

\* The store as one value, so that a handler is a composition of its calls.
DB ==
  [products |-> products, stockStats |-> stockStats,
   stockMovements |-> stockMovements, orders |-> orders,
   orderItems |-> orderItems, returns |-> returns,
   returnItems |-> returnItems, nextProductId |-> nextProductId,
   accounts |-> accounts]

\* The store as a call finds it.
Pre == DB

Max(a, b) == IF a >= b THEN a ELSE b

\* { ...row, ...updates }
Merge(row, updates) ==
  [f \in DOMAIN row |-> IF f \in DOMAIN updates THEN updates[f] ELSE row[f]]

\* ------------------------------------------------------------ products
\* storage.getProduct: undefined when no row has the id
hasProduct(D, id) == id \in DOMAIN D.products

\* storage.updateProduct: UPDATE products SET ... WHERE id = ?
updateProduct(D, id, stockQuantity) ==
  IF hasProduct(D, id)
  THEN [D EXCEPT !.products[id].stockQuantity = stockQuantity]
  ELSE D

\* ------------------------------------------------------------ stock stats
\* storage.getStockStatsByProduct: the rows of the product (result[0] || null)
getStockStatsByProduct(D, productId) ==
  SelectSeq(D.stockStats, LAMBDA r : r.productId = productId)

\* storage.updateStockStats: UPDATE stock_stats SET ... WHERE product_id = ?
updateStockStats(D, productId, updates) ==
  [D EXCEPT !.stockStats =
     [i \in DOMAIN @ |-> IF @[i].productId = productId
                         THEN Merge(@[i], updates) ELSE @[i]]]

\* initializeStockStats counting the starting stock as not purchased
initializeStockStatsUnpurchased(D, productId) ==
  [D EXCEPT !.stockStats =
     Append(@, [productId |-> productId,
                available |-> D.products[productId].stockQuantity,
                sold |-> 0, returned |-> 0, purchased |-> 0])]

\* storage.initializeStockStats
initializeStockStats(D, productId) ==
  [D EXCEPT !.stockStats =
     Append(@, [productId |-> productId,
                available |-> D.products[productId].stockQuantity,
                sold |-> 0, returned |-> 0,
                purchased |-> D.products[productId].stockQuantity])]

\* storage.createProduct; statsFail: the stats insert throws after the
\* product row is written
createProduct(D, insertProduct, statsFail) ==
  LET id == D.nextProductId
      D1 == [D EXCEPT !.products = [p \in DOMAIN @ \cup {id} |->
                                      IF p = id THEN insertProduct
                                      ELSE @[p]],
                      !.nextProductId = id + 1]
  IN IF statsFail THEN D1 ELSE initializeStockStats(D1, id)

\* storage.getProductBySKU: the ids of the rows with the SKU
getProductBySKU(D, sku) == {p \in DOMAIN D.products : D.products[p].sku = sku}

\* insertProductSchema, costPrice: "" and null are no cost price; any other
\* string, "0" too, is one.  v is what parseFloat reads from it.
NullCostPrice == [present |-> FALSE, v |-> 0]
CostPrice(v)  == [present |-> TRUE, v |-> v]

\* HasCostPrice taking a missing cost price for a cost of nothing
HasCostPriceAlways(costPrice) == TRUE

\* POST /api/products, line 149: parsed.data.costPrice is truthy
HasCostPrice(costPrice) == costPrice.present

\* PurchaseProfit forgetting the quantity
PurchaseProfitPerUnit(sellingPrice, costPrice, quantity) ==
  sellingPrice - costPrice

\* POST /api/products, lines 154-155: difference * quantity
PurchaseProfit(sellingPrice, costPrice, quantity) ==
  (sellingPrice - costPrice) * quantity

\* deleteProduct taking the product's movements and account entries along
deleteProductCascading(D, id) ==
  LET D1 == [D EXCEPT !.stockStats =
                        SelectSeq(@, LAMBDA r : r.productId # id),
                      !.stockMovements =
                        SelectSeq(@, LAMBDA r : r.productId # id),
                      !.accounts =
                        SelectSeq(@, LAMBDA r : r.productId # id)]
  IN IF ~hasProduct(D1, id) THEN D1
     ELSE [D1 EXCEPT !.products =
                       [p \in DOMAIN @ \ {id} |-> @[p]]]

\* storage.deleteProduct: the stats rows, then the product row
deleteProduct(D, id) ==
  LET D1 == [D EXCEPT !.stockStats =
                        SelectSeq(@, LAMBDA r : r.productId # id)]
  IN IF ~hasProduct(D1, id) THEN D1
     ELSE [D1 EXCEPT !.products =
                       [p \in DOMAIN @ \ {id} |-> @[p]]]

\* ------------------------------------------------------------ movements
\* NewQuantity with an adjustment applied as a delta
NewQuantityAdjustmentAsDelta(type, stockQuantity, quantity) ==
  CASE type = "in"         -> stockQuantity + quantity
    [] type = "out"        -> stockQuantity - quantity
    [] type = "adjustment" -> stockQuantity + quantity
    [] OTHER               -> stockQuantity

\* NewQuantity with the signs of in and out exchanged
NewQuantitySwapped(type, stockQuantity, quantity) ==
  CASE type = "in"         -> stockQuantity - quantity
    [] type = "out"        -> stockQuantity + quantity
    [] type = "adjustment" -> quantity
    [] OTHER               -> stockQuantity

\* createStockMovement, lines 316-323: the quantity the movement asks for
NewQuantity(type, stockQuantity, quantity) ==
  CASE type = "in"         -> stockQuantity + quantity
    [] type = "out"        -> stockQuantity - quantity
    [] type = "adjustment" -> quantity
    [] OTHER               -> stockQuantity

\* FinalQuantity without the clamp
FinalQuantityUnclamped(newQuantity) == newQuantity

\* createStockMovement, line 325
FinalQuantity(newQuantity) == Max(0, newQuantity)

\* MovementStatsUpdates reading the reason without regard to case
MovementStatsUpdatesAnyCase(reason, finalQuantity, stats, quantity) ==
  IF reason \in {"purchase", "Purchase"}
  THEN [available |-> finalQuantity, purchased |-> stats.purchased + quantity]
  ELSE [available |-> finalQuantity]

\* createStockMovement, lines 331-346: the stats fields a movement writes
MovementStatsUpdates(reason, finalQuantity, stats, quantity) ==
  IF reason = "purchase"
  THEN [available |-> finalQuantity, purchased |-> stats.purchased + quantity]
  ELSE [available |-> finalQuantity]

\* insertStockMovement recording the movements of existing products only
insertStockMovementIfProduct(D, m) ==
  IF hasProduct(D, m.productId)
  THEN [D EXCEPT !.stockMovements = Append(@, m)]
  ELSE D

\* insertStockMovement keeping one movement per product, the latest
insertStockMovementLatestOnly(D, m) ==
  [D EXCEPT !.stockMovements =
     Append(SelectSeq(@, LAMBDA r : r.productId # m.productId), m)]

\* insertStockMovement recording, for an adjustment, the distance from the
\* stock it finds
insertStockMovementAsDelta(D, m) ==
  LET stock == IF hasProduct(D, m.productId)
               THEN D.products[m.productId].stockQuantity ELSE 0
      delta == IF m.quantity >= stock THEN m.quantity - stock
               ELSE stock - m.quantity
  IN [D EXCEPT !.stockMovements =
        Append(@, IF m.type = "adjustment"
                  THEN [m EXCEPT !.quantity = delta] ELSE m)]

\* createStockMovement, lines 305-312: INSERT INTO stock_movements
insertStockMovement(D, m) ==
  [D EXCEPT !.stockMovements = Append(@, m)]

\* storage.createStockMovement
createStockMovement(D, m) ==
  LET D1 == insertStockMovement(D, m)
  IN IF ~hasProduct(D1, m.productId) THEN D1
     ELSE
       LET product       == D1.products[m.productId]
           finalQuantity == FinalQuantity(
                              NewQuantity(m.type, product.stockQuantity,
                                          m.quantity))
           D2    == updateProduct(D1, m.productId, finalQuantity)
           stats == getStockStatsByProduct(D2, m.productId)
       IN IF stats = <<>> THEN D2
          ELSE updateStockStats(D2, m.productId,
                 MovementStatsUpdates(m.reason, finalQuantity, Head(stats),
                                      m.quantity))

\* ------------------------------------------------------------ orders
\* createOrder, lines 222-226: the order row of a request that asks for
\* the status "pending"
NewOrder(id) == [id |-> id, status |-> "pending"]

\* SaleStatsUpdates counting the item, not its quantity
SaleStatsUpdatesPerItem(newStockQuantity, stats, quantity) ==
  [available |-> Max(0, newStockQuantity), sold |-> stats.sold + 1]

\* createOrder, lines 262-269: the stats fields a sold item writes
SaleStatsUpdates(newStockQuantity, stats, quantity) ==
  [available |-> Max(0, newStockQuantity), sold |-> stats.sold + quantity]

\* createOrder, lines 232-271: one turn of the loop over the items
createOrderItem(D, orderId, item) ==
  LET D1 == [D EXCEPT !.orderItems =
                        Append(@, [orderId |-> orderId,
                                   productId |-> item.productId,
                                   quantity |-> item.quantity])]
  IN IF ~hasProduct(D1, item.productId) THEN D1
     ELSE
       LET product          == D1.products[item.productId]
           newStockQuantity == product.stockQuantity - item.quantity
           D2 == updateProduct(D1, item.productId, newStockQuantity)
           D3 == createStockMovement(D2,
                   [productId |-> item.productId, type |-> "out",
                    quantity |-> item.quantity, reason |-> "sale"])
           stats == getStockStatsByProduct(D3, item.productId)
       IN IF stats = <<>> THEN D3
          ELSE updateStockStats(D3, item.productId,
                 SaleStatsUpdates(newStockQuantity, Head(stats),
                                  item.quantity))

RECURSIVE createOrderItems(_, _, _)
createOrderItems(D, orderId, items) ==
  IF items = <<>> THEN D
  ELSE createOrderItems(createOrderItem(D, orderId, Head(items)), orderId,
                        Tail(items))

\* storage.createOrder
createOrder(D, items) ==
  LET id == Len(D.orders) + 1
      D1 == [D EXCEPT !.orders = Append(@, NewOrder(id))]
  IN createOrderItems(D1, id, items)

\* updateOrder applying the stock effects of the order's items again
updateOrderReapplying(D, id, insertOrder) ==
  LET D1 == [D EXCEPT !.orders =
               [i \in DOMAIN @ |-> IF @[i].id = id
                                   THEN Merge(@[i], insertOrder) ELSE @[i]]]
  IN createOrderItems([D1 EXCEPT !.orderItems = <<>>], id,
       [i \in DOMAIN D.orderItems |->
          [productId |-> D.orderItems[i].productId,
           quantity |-> D.orderItems[i].quantity]])

\* storage.updateOrder: UPDATE orders SET ... WHERE id = ?
updateOrder(D, id, insertOrder) ==
  [D EXCEPT !.orders =
     [i \in DOMAIN @ |-> IF @[i].id = id
                         THEN Merge(@[i], insertOrder) ELSE @[i]]]

\* ------------------------------------------------- orders, write by write
\* No write of the storage layer runs in a transaction: what an error
\* leaves behind is the store as the writes before it made it.
\* Abandoned undoing them
AbandonedRolledBack(before, written) == before

\* storage.ts has no transaction, rollback or catch around its writes
Abandoned(before, written) == written

\* The store after the last write
Last(stores) == stores[Len(stores)]

\* storage.createStockMovement: the store after each of its writes (the
\* insert, the product update, the stats update)
StockMovementWrites(D, m) ==
  LET D1 == insertStockMovement(D, m)
  IN IF ~hasProduct(D1, m.productId) THEN <<D1>>
     ELSE
       LET product       == D1.products[m.productId]
           finalQuantity == FinalQuantity(
                              NewQuantity(m.type, product.stockQuantity,
                                          m.quantity))
           D2    == updateProduct(D1, m.productId, finalQuantity)
           stats == getStockStatsByProduct(D2, m.productId)
       IN IF stats = <<>> THEN <<D1, D2>>
          ELSE <<D1, D2,
                 updateStockStats(D2, m.productId,
                   MovementStatsUpdates(m.reason, finalQuantity, Head(stats),
                                        m.quantity))>>

\* createOrder, lines 232-271: the store after each write of one turn of
\* the loop (the item insert, the product update, the writes of
\* createStockMovement, the stats update)
OrderItemWrites(D, orderId, item) ==
  LET D1 == [D EXCEPT !.orderItems =
                        Append(@, [orderId |-> orderId,
                                   productId |-> item.productId,
                                   quantity |-> item.quantity])]
  IN IF ~hasProduct(D1, item.productId) THEN <<D1>>
     ELSE
       LET product          == D1.products[item.productId]
           newStockQuantity == product.stockQuantity - item.quantity
           D2 == updateProduct(D1, item.productId, newStockQuantity)
           movement == StockMovementWrites(D2,
                         [productId |-> item.productId, type |-> "out",
                          quantity |-> item.quantity, reason |-> "sale"])
           D3    == Last(movement)
           stats == getStockStatsByProduct(D3, item.productId)
       IN <<D1, D2>> \o movement
          \o (IF stats = <<>> THEN <<>>
              ELSE <<updateStockStats(D3, item.productId,
                       SaleStatsUpdates(newStockQuantity, Head(stats),
                                        item.quantity))>>)

\* storage.createOrder when write number w of the turn for item k throws:
\* the order row, the turns of the items before k and the writes of the
\* turn before w have been made
createOrderFailing(D, items, k, w) ==
  LET id == Len(D.orders) + 1
      D1 == [D EXCEPT !.orders = Append(@, NewOrder(id))]
      Dk == createOrderItems(D1, id, SubSeq(items, 1, k - 1))
      writes == <<Dk>> \o OrderItemWrites(Dk, id, items[k])
  IN Abandoned(D, writes[w])

\* ------------------------------------------------------------ returns
\* ReturnStatsUpdates taking the quantity back out of sold as well
ReturnStatsUpdatesUnsell(stockQuantity, stats, quantity) ==
  [available |-> stockQuantity + quantity,
   returned |-> stats.returned + quantity,
   sold |-> stats.sold - quantity]

\* createReturn, lines 431-438: the stats fields a returned item writes
ReturnStatsUpdates(stockQuantity, stats, quantity) ==
  [available |-> stockQuantity + quantity,
   returned |-> stats.returned + quantity]

\* createReturn, lines 413-450: one turn of the loop over the items
createReturnItem(D, returnId, item) ==
  LET D1 == [D EXCEPT !.returnItems =
                        Append(@, [returnId |-> returnId,
                                   productId |-> item.productId,
                                   quantity |-> item.quantity])]
      D4 ==
        IF ~hasProduct(D1, item.productId) THEN D1
        ELSE
          LET product == D1.products[item.productId]
              D2 == updateProduct(D1, item.productId,
                                  product.stockQuantity + item.quantity)
              stats == getStockStatsByProduct(D2, item.productId)
          IN IF stats = <<>> THEN D2
             ELSE updateStockStats(D2, item.productId,
                    ReturnStatsUpdates(product.stockQuantity, Head(stats),
                                       item.quantity))
  IN createStockMovement(D4,
       [productId |-> item.productId, type |-> "in",
        quantity |-> item.quantity, reason |-> "return"])

RECURSIVE createReturnItems(_, _, _)
createReturnItems(D, returnId, items) ==
  IF items = <<>> THEN D
  ELSE createReturnItems(createReturnItem(D, returnId, Head(items)),
                         returnId, Tail(items))

\* storage.createReturn
createReturn(D, data, items) ==
  LET id == Len(D.returns) + 1
      D1 == [D EXCEPT !.returns =
                        Append(@, [id |-> id, orderId |-> data.orderId])]
  IN createReturnItems(D1, id, items)

\* ------------------------------------------------------------ bulk stats
\* refreshStockStats that creates a missing row and leaves a present one
refreshStockStatsInsertOnly(D, productId) ==
  IF getStockStatsByProduct(D, productId) = <<>>
  THEN [D EXCEPT !.stockStats =
          Append(@, [productId |-> productId,
                     available |-> D.products[productId].stockQuantity,
                     sold |-> 0, returned |-> 0, purchased |-> 0])]
  ELSE D

\* getStockStats, lines 581-603: one turn of the loop over the products
refreshStockStats(D, productId) ==
  IF getStockStatsByProduct(D, productId) = <<>>
  THEN [D EXCEPT !.stockStats =
          Append(@, [productId |-> productId,
                     available |-> D.products[productId].stockQuantity,
                     sold |-> 0, returned |-> 0, purchased |-> 0])]
  ELSE updateStockStats(D, productId,
         [available |-> D.products[productId].stockQuantity])

RECURSIVE refreshAll(_, _)
refreshAll(D, ids) ==
  IF ids = {} THEN D
  ELSE LET id == CHOOSE p \in ids : \A q \in ids : p <= q
       IN refreshAll(refreshStockStats(D, id), ids \ {id})

\* storage.getStockStats: the store it leaves; the rows it returns are the
\* whole stock_stats table of that store
getStockStats(D) == refreshAll(D, DOMAIN D.products)

\* ------------------------------------------------------------ discounts
\* What parseFloat makes of the amountUsed string: NaN, or a number
NaNAmount == [isNaN |-> TRUE, v |-> 0]
Number(v) == [isNaN |-> FALSE, v |-> v]

\* An amountUsed string: the number its leading characters spell (digits,
\* <<>> when they spell none) and whether other characters follow (junk).
\* parseFloat reads the leading number and ignores what follows it.
parseFloat(text) ==
  IF text.digits = <<>> THEN NaNAmount ELSE Number(text.digits[1])

\* The string is a number, all of it
IsNumeric(text) == text.digits # <<>> /\ ~text.junk

\* ToFixed2 cutting the thousandths off instead of rounding
ToFixed2Truncating(amount, up) == amount - (amount % 10)

\* Number.prototype.toFixed(2): to the nearest cent; a decimal tie is not a
\* tie of the binary value, which lies on either side (up tells which)
ToFixed2(amount, up) ==
  LET r == amount % 10
  IN IF r < 5 \/ (r = 5 /\ ~up) THEN amount - r ELSE amount - r + 10

\* WithinEpsilon without the epsilon: remainingAmount <= 0
WithinEpsilonExact(remainingAmount, below) == remainingAmount <= 0

\* useDiscountCode, line 547: remainingAmount <= 0.01 on binary doubles.
\* A difference of exactly one cent computes to either side of the double
\* 0.01 (0.03 - 0.02 is below it, 1.01 - 1.00 above); below tells which.
WithinEpsilon(remainingAmount, below) ==
  \/ remainingAmount < Epsilon
  \/ remainingAmount = Epsilon /\ below

\* storage.getDiscountCode: the rows with the code (result[0] || null)
getDiscountCode(T, code) == SelectSeq(T, LAMBDA r : r.code = code)

\* storage.createDiscountCode
createDiscountCode(T, id, code, amount) ==
  Append(T, [id |-> id, code |-> code, amount |-> amount])

\* storage.deleteDiscountCode
deleteDiscountCode(T, id) == SelectSeq(T, LAMBDA r : r.id # id)

\* useDiscountCode that redeems what is left when asked for more
ExceedsBalanceNever(usedAmount, currentAmount) == FALSE

\* useDiscountCode, line 536
ExceedsBalance(usedAmount, currentAmount) == usedAmount.v > currentAmount

\* useDiscountCode, line 527
InvalidAmount(usedAmount) == usedAmount.isNaN \/ usedAmount.v <= 0

Answer(T, updated, wasDeleted, wasFound, error) ==
  [table |-> T, updated |-> updated, wasDeleted |-> wasDeleted,
   wasFound |-> wasFound, error |-> error]

\* storage.useDiscountCode: the table it leaves and what it returns
\* (updated: the rows returned, <<>> for null)
useDiscountCode(T, code, usedAmount, below, up) ==
  LET found == getDiscountCode(T, code)
  IN IF found = <<>> THEN Answer(T, <<>>, FALSE, FALSE, "none")
     ELSE
       LET discountCode  == Head(found)
           currentAmount == discountCode.amount
       IN IF InvalidAmount(usedAmount)
          THEN Answer(T, <<>>, FALSE, TRUE, "Amount used must be a positive number")
          ELSE IF ExceedsBalance(usedAmount, currentAmount)
          THEN Answer(T, <<>>, FALSE, TRUE, "exceeds available credit")
          ELSE
            LET remainingAmount == currentAmount - usedAmount.v
            IN IF WithinEpsilon(remainingAmount, below)
               THEN Answer(deleteDiscountCode(T, discountCode.id),
                           <<>>, TRUE, TRUE, "none")
               ELSE
                 LET T1 == [i \in DOMAIN T |->
                              IF T[i].id = discountCode.id
                              THEN [T[i] EXCEPT !.amount =
                                      ToFixed2(remainingAmount, up)]
                              ELSE T[i]]
                 IN Answer(T1,
                           SelectSeq(T1, LAMBDA r : r.id = discountCode.id),
                           FALSE, TRUE, "none")

\* --------------------------------------------------- POST /api/products
\* lines 162-198: the accounts row of a purchase, potential profit or loss
PurchaseEntry(productId, sellingPrice, costPrice, quantity, up) ==
  [transactionType |-> "purchase",
   referenceId     |-> productId,
   productId       |-> productId,
   cost            |-> ToFixed2(costPrice * quantity, up),
   profit          |-> ToFixed2(PurchaseProfit(sellingPrice, costPrice,
                                               quantity), up),
   quantity        |-> quantity]

\* POST /api/products, lines 140-201.  A SKU already in use answers 400; a
\* failing stats insert leaves createProduct's product row and answers 500.
postProduct(D, body, statsFail, up) ==
  IF getProductBySKU(D, body.sku) # {} THEN D
  ELSE
    LET D1 == createProduct(D, body, statsFail)
        difference == body.price - body.costPrice.v
        entry == PurchaseEntry(D.nextProductId, body.price,
                               body.costPrice.v, body.stockQuantity, up)
    IN IF statsFail THEN D1
       ELSE IF HasCostPrice(body.costPrice) /\ body.stockQuantity > 0
            THEN IF difference > 0
                 THEN [D1 EXCEPT !.accounts = Append(@, entry)]
                 ELSE IF difference < 0
                      THEN [D1 EXCEPT !.accounts = Append(@, entry)]
                      ELSE D1
            ELSE D1

\* --------------------------------------------------- POST /api/returns
\* lines 434-436: the credit the request asks for.  creditAmount is <<>>
\* when null, undefined or "", else the string sent.
CreditAmount(creditAmount) ==
  IF creditAmount = <<>> THEN 0
  ELSE IF creditAmount[1] = [digits |-> <<0>>, junk |-> FALSE] THEN 0
       ELSE parseFloat(creditAmount[1]).v

\* lines 445-487 without the two catch blocks: an error of the discount
\* code insert or of the mail is thrown on
MintStoreCreditUncaught(T, id, amount, codeFail, emailFail) ==
  IF codeFail THEN [table |-> T, minted |-> FALSE, sent |-> FALSE,
                    thrown |-> TRUE]
  ELSE [table |-> createDiscountCode(T, id, id, amount), minted |-> TRUE,
        sent |-> ~emailFail, thrown |-> emailFail]

\* lines 445-487: the discount code of a store credit and its mail, each in
\* its try block.  codeFail: storage.createDiscountCode throws; emailFail:
\* emailService.sendDiscountCode throws.
MintStoreCredit(T, id, amount, codeFail, emailFail) ==
  IF codeFail THEN [table |-> T, minted |-> FALSE, sent |-> FALSE,
                    thrown |-> FALSE]
  ELSE [table |-> createDiscountCode(T, id, id, amount), minted |-> TRUE,
        sent |-> ~emailFail, thrown |-> FALSE]

\* POST /api/returns, lines 418-509.  The answer is 200 with the return, or
\* 500 when something was thrown as far as the outer catch.
postReturn(D, T, id, body, codeFail, emailFail, up) ==
  LET D1 == createReturn(D, [orderId |-> body.orderId], body.items)
      creditAmount == CreditAmount(body.creditAmount)
      none == [table |-> T, minted |-> FALSE, sent |-> FALSE,
               thrown |-> FALSE]
      credit == IF creditAmount > 0 /\ body.customerEmail
                THEN MintStoreCredit(T, id, ToFixed2(creditAmount, up),
                                     codeFail, emailFail)
                ELSE none
  IN [store |-> D1, table |-> credit.table, minted |-> credit.minted,
      sent |-> credit.sent,
      response |-> IF credit.thrown THEN [status |-> "500", return |-> <<>>]
                   ELSE [status |-> "200",
                         return |-> <<D1.returns[Len(D1.returns)].id>>]]

\* ------------------------------------- handlers, statement by statement
\* Node runs one handler until its next await and then may run another:
\* every awaited statement of the database is a step of its own, and what a
\* handler read before an await is a local value that nothing refreshes.
Requests == 1..MaxRequests
Idle == [op |-> "idle"]
Done == [op |-> "done"]

\* What a step leaves: the store and the request
After(D, pr) == [store |-> D, proc |-> pr]

\* result[0] of SELECT ... WHERE sku = ?: <<>> or one of the rows' ids
ExistingBySKU(D, sku) ==
  IF getProductBySKU(D, sku) = {} THEN {<<>>}
  ELSE {<<p>> : p \in getProductBySKU(D, sku)}

\* createProduct, lines 120-123: INSERT INTO products
insertProductRow(D, row) ==
  LET id == D.nextProductId
  IN [D EXCEPT !.products = [p \in DOMAIN @ \cup {id} |->
                               IF p = id THEN row ELSE @[p]],
               !.nextProductId = id + 1]

\* initializeStockStats, lines 626-636, of the row createProduct read back
insertStockStats(D, productId, product) ==
  [D EXCEPT !.stockStats =
     Append(@, [productId |-> productId,
                available |-> product.stockQuantity,
                sold |-> 0, returned |-> 0,
                purchased |-> product.stockQuantity])]

\* setProductRow leaving the stock_quantity column as it finds it
setProductRowKeepingStock(D, id, row) ==
  IF hasProduct(D, id)
  THEN [D EXCEPT !.products[id] =
          [row EXCEPT !.stockQuantity = D.products[id].stockQuantity]]
  ELSE D

\* updateProduct, lines 147-149: UPDATE products SET <every column> WHERE id
setProductRow(D, id, row) ==
  IF hasProduct(D, id) THEN [D EXCEPT !.products[id] = row] ELSE D

\* POST /api/products, lines 141-146, and createProduct, lines 120-135
postProductStep(D, pr, existing) ==
  CASE pr.pc = "getProductBySKU" ->
         After(D, IF existing # <<>> THEN Done
                  ELSE [pr EXCEPT !.pc = "insert"])
    [] pr.pc = "insert" ->
         After(insertProductRow(D, pr.body),
               [pr EXCEPT !.pc = "select", !.id = D.nextProductId])
    [] pr.pc = "select" ->
         After(D, IF hasProduct(D, pr.id)
                  THEN [pr EXCEPT !.pc = "initializeStockStats",
                                  !.product = <<D.products[pr.id]>>]
                  ELSE Done)
    [] pr.pc = "initializeStockStats" ->
         After(insertStockStats(D, pr.id, pr.product[1]), Done)

\* PATCH /api/products/:id, lines 219-225, and updateProduct, lines 147-149
patchProductStep(D, pr, existing) ==
  CASE pr.pc = "getProductBySKU" ->
         After(D, IF existing # <<>> /\ existing[1] # pr.id THEN Done
                  ELSE [pr EXCEPT !.pc = "updateProduct"])
    [] pr.pc = "updateProduct" ->
         After(setProductRow(D, pr.id, pr.body), Done)

\* The ids of a set, ascending: the rows of a SELECT without a WHERE
RECURSIVE Ascending(_)
Ascending(ids) ==
  IF ids = {} THEN <<>>
  ELSE LET id == CHOOSE p \in ids : \A q \in ids : p <= q
       IN <<id>> \o Ascending(ids \ {id})

\* storage.getStockStats, lines 571-603
getStockStatsStep(D, pr) ==
  CASE pr.pc = "selectProducts" ->
         After(D, IF DOMAIN D.products = {} THEN Done
                  ELSE [pr EXCEPT !.pc = "selectExisting",
                                  !.allProducts = D.products,
                                  !.todo = Ascending(DOMAIN D.products)])
    [] pr.pc = "selectExisting" ->
         After(D, [pr EXCEPT !.pc = "write",
                             !.existing =
                               getStockStatsByProduct(D, Head(pr.todo))
                                 # <<>>])
    [] pr.pc = "write" ->
         LET id      == Head(pr.todo)
             product == pr.allProducts[id]
             D1 == IF pr.existing
                   THEN updateStockStats(D, id,
                          [available |-> product.stockQuantity])
                   ELSE [D EXCEPT !.stockStats =
                           Append(@, [productId |-> id,
                                      available |-> product.stockQuantity,
                                      sold |-> 0, returned |-> 0,
                                      purchased |-> 0])]
         IN After(D1, IF Tail(pr.todo) = <<>> THEN Done
                      ELSE [pr EXCEPT !.pc = "selectExisting",
                                      !.todo = Tail(pr.todo)])

\* storage.createStockMovement, lines 306-346, as a part of the request pr;
\* next: the request once the movement is made
createStockMovementStep(D, pr, next) ==
  LET m == pr.movement
  IN CASE pr.pc = "insertMovement" ->
            After(insertStockMovement(D, m),
                  [pr EXCEPT !.pc = "movementGetProduct"])
       [] pr.pc = "movementGetProduct" ->
            After(D, IF hasProduct(D, m.productId)
                     THEN [pr EXCEPT !.pc = "movementUpdateProduct",
                                     !.movementProduct =
                                       <<D.products[m.productId]>>]
                     ELSE next)
       [] pr.pc = "movementUpdateProduct" ->
            LET product       == pr.movementProduct[1]
                finalQuantity == FinalQuantity(
                                   NewQuantity(m.type, product.stockQuantity,
                                               m.quantity))
            IN After(setProductRow(D, m.productId,
                       [product EXCEPT !.stockQuantity = finalQuantity]),
                     [pr EXCEPT !.pc = "movementGetStats",
                                !.finalQuantity = finalQuantity])
       [] pr.pc = "movementGetStats" ->
            LET stats == getStockStatsByProduct(D, m.productId)
            IN After(D, IF stats = <<>> THEN next
                        ELSE [pr EXCEPT !.pc = "movementUpdateStats",
                                        !.movementStats = <<Head(stats)>>])
       [] pr.pc = "movementUpdateStats" ->
            After(updateStockStats(D, m.productId,
                    MovementStatsUpdates(m.reason, pr.finalQuantity,
                                         pr.movementStats[1], m.quantity)),
                  next)

\* The statements of createStockMovement
MovementPcs ==
  {"insertMovement", "movementGetProduct", "movementUpdateProduct",
   "movementGetStats", "movementUpdateStats"}

\* storage.createOrder, lines 222-269, of one item
createOrderStep(D, pr) ==
  LET item == pr.item
  IN CASE pr.pc = "insertOrder" ->
            After([D EXCEPT !.orders = Append(@, NewOrder(Len(@) + 1))],
                  [pr EXCEPT !.pc = "insertItem",
                             !.id = Len(D.orders) + 1])
       [] pr.pc = "insertItem" ->
            After([D EXCEPT !.orderItems =
                     Append(@, [orderId |-> pr.id,
                                productId |-> item.productId,
                                quantity |-> item.quantity])],
                  [pr EXCEPT !.pc = "getProduct"])
       [] pr.pc = "getProduct" ->
            After(D, IF hasProduct(D, item.productId)
                     THEN [pr EXCEPT !.pc = "updateProduct",
                                     !.product =
                                       <<D.products[item.productId]>>]
                     ELSE Done)
       [] pr.pc = "updateProduct" ->
            LET product          == pr.product[1]
                newStockQuantity == product.stockQuantity - item.quantity
            IN After(setProductRow(D, item.productId,
                       [product EXCEPT !.stockQuantity = newStockQuantity]),
                     [pr EXCEPT !.pc = "insertMovement",
                                !.newStockQuantity = newStockQuantity])
       [] pr.pc \in MovementPcs ->
            createStockMovementStep(D, pr, [pr EXCEPT !.pc = "getStats"])
       [] pr.pc = "getStats" ->
            LET stats == getStockStatsByProduct(D, item.productId)
            IN After(D, IF stats = <<>> THEN Done
                        ELSE [pr EXCEPT !.pc = "updateStats",
                                        !.stats = <<Head(stats)>>])
       [] pr.pc = "updateStats" ->
            After(updateStockStats(D, item.productId,
                    SaleStatsUpdates(pr.newStockQuantity, pr.stats[1],
                                     item.quantity)),
                  Done)

\* storage.createReturn, lines 397-449, of one item
createReturnStep(D, pr) ==
  LET item == pr.item
  IN CASE pr.pc = "insertReturn" ->
            After([D EXCEPT !.returns =
                     Append(@, [id |-> Len(@) + 1,
                                orderId |-> pr.data.orderId])],
                  [pr EXCEPT !.pc = "insertItem",
                             !.id = Len(D.returns) + 1])
       [] pr.pc = "insertItem" ->
            After([D EXCEPT !.returnItems =
                     Append(@, [returnId |-> pr.id,
                                productId |-> item.productId,
                                quantity |-> item.quantity])],
                  [pr EXCEPT !.pc = "getProduct"])
       [] pr.pc = "getProduct" ->
            After(D, IF hasProduct(D, item.productId)
                     THEN [pr EXCEPT !.pc = "updateProduct",
                                     !.product =
                                       <<D.products[item.productId]>>]
                     ELSE [pr EXCEPT !.pc = "insertMovement"])
       [] pr.pc = "updateProduct" ->
            LET product == pr.product[1]
            IN After(setProductRow(D, item.productId,
                       [product EXCEPT !.stockQuantity =
                                         @ + item.quantity]),
                     [pr EXCEPT !.pc = "getStats"])
       [] pr.pc = "getStats" ->
            LET stats == getStockStatsByProduct(D, item.productId)
            IN After(D, IF stats = <<>>
                        THEN [pr EXCEPT !.pc = "insertMovement"]
                        ELSE [pr EXCEPT !.pc = "updateStats",
                                        !.stats = <<Head(stats)>>])
       [] pr.pc = "updateStats" ->
            After(updateStockStats(D, item.productId,
                    ReturnStatsUpdates(pr.product[1].stockQuantity,
                                       pr.stats[1], item.quantity)),
                  [pr EXCEPT !.pc = "insertMovement"])
       [] pr.pc \in MovementPcs ->
            createStockMovementStep(D, pr, Done)

\* A request that redeemed amount of the code: the route answered success
Redeemed(code, amount) ==
  [op |-> "redeemed", code |-> code, amount |-> amount]

\* What a step on the discount codes leaves: the table and the request
AfterCodes(T, pr) == [table |-> T, proc |-> pr]

\* storage.useDiscountCode, lines 516-560: the select of line 516 with the
\* tests that follow it, then the delete of line 548 or the update of
\* lines 553-555, of the row that was read
useDiscountCodeStep(T, pr) ==
  CASE pr.pc = "getDiscountCode" ->
         LET found == getDiscountCode(T, pr.code)
         IN IF found = <<>> THEN AfterCodes(T, Done)
            ELSE IF InvalidAmount(pr.usedAmount) THEN AfterCodes(T, Done)
            ELSE IF ExceedsBalance(pr.usedAmount, Head(found).amount)
                 THEN AfterCodes(T, Done)
            ELSE LET remainingAmount ==
                       Head(found).amount - pr.usedAmount.v
                 IN AfterCodes(T,
                      [pr EXCEPT !.pc = IF WithinEpsilon(remainingAmount,
                                                         pr.below)
                                        THEN "delete" ELSE "update",
                                 !.discountCode = found,
                                 !.remainingAmount = remainingAmount])
    [] pr.pc = "delete" ->
         AfterCodes(deleteDiscountCode(T, pr.discountCode[1].id),
                    Redeemed(pr.code, pr.usedAmount.v))
    [] pr.pc = "update" ->
         AfterCodes([i \in DOMAIN T |->
                       IF T[i].id = pr.discountCode[1].id
                       THEN [T[i] EXCEPT !.amount =
                               ToFixed2(pr.remainingAmount, pr.up)]
                       ELSE T[i]],
                    Redeemed(pr.code, pr.usedAmount.v))

\* ------------------------------------------------------------ the dialog
\* create-return-dialog.tsx.  unitPrice, subtotal and price are strings.
\* The string a number prints as
Text(v) == [digits |-> <<v>>, junk |-> FALSE]

Min(a, b) == IF a <= b THEN a ELSE b

\* updateQuantity, line 126: the most that can be returned of a product the
\* order does not hold
NoOriginalItemMax == 999

\* useEffect, lines 84-91: one return item per order item, nothing returned
InitialReturnItems(order) ==
  [i \in DOMAIN order |->
     [productId |-> order[i].productId, quantity |-> 0,
      unitPrice |-> order[i].unitPrice, subtotal |-> Text(0),
      exchangeProductId |-> <<>>]]

\* updateQuantity, lines 122-135
updateQuantity(order, items, productId, newQuantity, up) ==
  [i \in DOMAIN items |->
     LET item == items[i]
         originalItems == SelectSeq(order,
                                    LAMBDA oi : oi.productId = productId)
         maxQty   == IF originalItems # <<>> THEN Head(originalItems).quantity
                     ELSE NoOriginalItemMax
         quantity == Max(0, Min(newQuantity, maxQty))
         subtotal == Text(ToFixed2(quantity * parseFloat(item.unitPrice).v,
                                   up))
     IN IF item.productId = productId
        THEN [item EXCEPT !.quantity = quantity, !.subtotal = subtotal]
        ELSE item]

\* setExchangeProduct, lines 137-151; <<>> is the choice "none"
setExchangeProduct(items, productId, exchangeProductId) ==
  [i \in DOMAIN items |->
     IF items[i].productId = productId
     THEN [items[i] EXCEPT !.exchangeProductId = exchangeProductId]
     ELSE items[i]]

\* calculateTotals, lines 193-204: the loop over the items to return
RECURSIVE TotalReturnValue(_)
TotalReturnValue(itemsToReturn) ==
  IF itemsToReturn = <<>> THEN 0
  ELSE parseFloat(Head(itemsToReturn).subtotal).v
       + TotalReturnValue(Tail(itemsToReturn))

RECURSIVE TotalExchangeValue(_, _)
TotalExchangeValue(itemsToReturn, productList) ==
  IF itemsToReturn = <<>> THEN 0
  ELSE LET item == Head(itemsToReturn)
           found == /\ item.exchangeProductId # <<>>
                    /\ item.exchangeProductId[1] \in DOMAIN productList
       IN (IF found
           THEN parseFloat(productList[item.exchangeProductId[1]].price).v
                  * item.quantity
           ELSE 0)
          + TotalExchangeValue(Tail(itemsToReturn), productList)

\* Outcome refunding the return value of an exchange as well
OutcomeRefundsOnExchange(totalReturnValue, totalExchangeValue) ==
  LET difference == totalReturnValue - totalExchangeValue
  IN [total |-> totalReturnValue, refund |-> totalReturnValue,
      credit |-> IF totalExchangeValue > 0 /\ difference > 0
                 THEN difference ELSE 0,
      exchangeValue |-> totalExchangeValue,
      additionalPayment |-> IF totalExchangeValue > 0 /\ difference < 0
                            THEN -difference ELSE 0]

\* calculateTotals, lines 206-234: refund, credit or additional payment
Outcome(totalReturnValue, totalExchangeValue) ==
  LET hasExchange == totalExchangeValue > 0
      difference  == totalReturnValue - totalExchangeValue
      zero == [refund |-> 0, credit |-> 0, additionalPayment |-> 0]
      amounts ==
        IF hasExchange
        THEN IF difference > 0
             THEN [zero EXCEPT !.credit = difference]
             ELSE IF difference < 0
                  THEN [zero EXCEPT !.additionalPayment = -difference]
                  ELSE zero
        ELSE [zero EXCEPT !.refund = totalReturnValue]
  IN [total |-> totalReturnValue, refund |-> amounts.refund,
      credit |-> amounts.credit, exchangeValue |-> totalExchangeValue,
      additionalPayment |-> amounts.additionalPayment]

\* calculateTotals, lines 187-235
calculateTotals(items, productList) ==
  LET itemsToReturn == SelectSeq(items, LAMBDA item : item.quantity > 0)
  IN Outcome(TotalReturnValue(itemsToReturn),
             TotalExchangeValue(itemsToReturn, productList))

\* The dialog as rendered: its props, its state and the totals it shows
\* (line 272)
Render(order, productList, items) ==
  [order |-> order, products |-> productList, returnItems |-> items,
   totals |-> calculateTotals(items, productList)]

\* The dialog before an order is opened in it
ClosedDialog == Render(<<>>, <<>>, <<>>)

\* ------------------------------------------------------------ behaviours
StoreInit ==
  /\ products = <<>>
  /\ stockStats = <<>>
  /\ stockMovements = <<>>
  /\ orders = <<>>
  /\ orderItems = <<>>
  /\ returns = <<>>
  /\ returnItems = <<>>
  /\ nextProductId = 1
  /\ accounts = <<>>
  /\ discountCodes = <<>>
  /\ nextCode = 1
  /\ procs = [i \in Requests |-> Idle]
  /\ last = [op |-> "none"]

Init == StoreInit /\ dialog = ClosedDialog

\* Install the tables of R.
Install(R) ==
  /\ products' = R.products
  /\ stockStats' = R.stockStats
  /\ stockMovements' = R.stockMovements
  /\ orders' = R.orders
  /\ orderItems' = R.orderItems
  /\ returns' = R.returns
  /\ returnItems' = R.returnItems
  /\ nextProductId' = R.nextProductId
  /\ accounts' = R.accounts

\* Install the tables of R and record the call.
Commit(R, call) ==
  /\ Install(R)
  /\ last' = call
  /\ UNCHANGED <<discVars, dialog, procs>>

\* What the bounds let the explored store hold.
InBounds(R) ==
  /\ \A p \in DOMAIN R.products : R.products[p].stockQuantity <= MaxStock
  /\ Len(R.stockMovements) <= MaxMoves
  /\ Len(R.orders) <= MaxOrders
  /\ Len(R.returns) <= MaxReturns

\* POST /api/products -> storage.createProduct, of a product under a SKU
\* of its own and without a cost price
CreateProduct ==
  \E n \in 0..MaxStock, statsFail \in BOOLEAN, up \in BOOLEAN :
    LET body == [sku |-> nextProductId, price |-> Unit,
                 costPrice |-> NullCostPrice, stockQuantity |-> n]
    IN /\ nextProductId <= MaxProducts
       /\ Commit(postProduct(DB, body, statsFail, up),
                 [op |-> "createProduct", productId |-> nextProductId,
                  stockQuantity |-> n, body |-> body,
                  statsFail |-> statsFail, pre |-> Pre])

\* DELETE /api/products/:id -> storage.deleteProduct
DeleteProduct ==
  \E id \in ProductIds :
    Commit(deleteProduct(DB, id),
           [op |-> "deleteProduct", productId |-> id, pre |-> Pre])

Items ==
  UNION {[1..n -> [productId : ProductIds, quantity : Quantities]] :
           n \in 1..MaxItems}

\* POST /api/orders -> storage.createOrder
CreateOrder ==
  \E items \in Items :
    LET R == createOrder(DB, items)
    IN /\ InBounds(R)
       /\ Commit(R, [op |-> "createOrder", items |-> items, pre |-> Pre])

\* POST /api/returns -> storage.createReturn
CreateReturn ==
  \E items \in Items :
    LET R == createReturn(DB, [orderId |-> MaxOrders], items)
    IN /\ InBounds(R)
       /\ Commit(R, [op |-> "createReturn", items |-> items, pre |-> Pre])

\* POST /api/stock-movements -> storage.createStockMovement
CreateStockMovement ==
  \E id \in ProductIds, type \in {"in", "out", "adjustment"},
     quantity \in Quantities, reason \in Reasons :
    LET m == [productId |-> id, type |-> type, quantity |-> quantity,
              reason |-> reason]
        R == createStockMovement(DB, m)
    IN /\ InBounds(R)
       /\ Commit(R, [op |-> "createStockMovement", movement |-> m,
                     pre |-> Pre])

\* GET /api/stock-stats -> storage.getStockStats
GetStockStats ==
  LET R == getStockStats(DB)
  IN Commit(R, [op |-> "getStockStats", result |-> R.stockStats,
                pre |-> Pre])

Next ==
  \/ CreateProduct
  \/ DeleteProduct
  \/ CreateOrder
  \/ CreateReturn
  \/ CreateStockMovement
  \/ GetStockStats

Spec == Init /\ [][Next]_vars

\* ------------------------------------------------------------ store credit
Codes == 1..MaxCodes
AmountStrings ==
  {[digits |-> <<>>, junk |-> j] : j \in BOOLEAN}
  \cup {[digits |-> <<v>>, junk |-> j] :
          v \in -1..(10 * MaxCents + 1), j \in BOOLEAN}

\* POST /api/returns, lines 445-463: a credit of a whole number of cents
\* (toFixed(2)) is minted under a fresh code
CreateDiscountCode ==
  \E cents \in 1..MaxCents :
    /\ nextCode <= MaxCodes
    /\ discountCodes' = createDiscountCode(discountCodes, nextCode, nextCode,
                                           10 * cents)
    /\ nextCode' = nextCode + 1
    /\ last' = [op |-> "createDiscountCode", code |-> nextCode,
                amount |-> 10 * cents]
    /\ UNCHANGED <<invVars, dialog, procs>>

\* POST /api/discount-codes/:code/use -> storage.useDiscountCode
UseDiscountCode ==
  \E code \in Codes, amountUsed \in AmountStrings, below \in BOOLEAN,
     up \in BOOLEAN :
    LET usedAmount == parseFloat(amountUsed)
        r == useDiscountCode(discountCodes, code, usedAmount, below, up)
    IN /\ discountCodes' = r.table
       /\ last' = [op |-> "useDiscountCode", code |-> code,
                   amountUsed |-> amountUsed,
                   usedAmount |-> usedAmount, result |-> r,
                   pre |-> discountCodes]
       /\ UNCHANGED <<invVars, nextCode, dialog, procs>>

\* DELETE /api/discount-codes/:id -> storage.deleteDiscountCode
DeleteDiscountCode ==
  \E id \in Codes :
    /\ discountCodes' = deleteDiscountCode(discountCodes, id)
    /\ last' = [op |-> "deleteDiscountCode", id |-> id]
    /\ UNCHANGED <<invVars, nextCode, dialog, procs>>

DiscountNext ==
  \/ CreateDiscountCode
  \/ UseDiscountCode
  \/ DeleteDiscountCode

DiscountSpec == Init /\ [][DiscountNext]_vars

\* ------------------------------------------------------------ the catalog
Skus   == 1..MaxSkus
Prices == {k * Unit : k \in 1..MaxPrice}
CostPrices ==
  {NullCostPrice} \cup {CostPrice(k * Unit) : k \in 0..MaxPrice}

\* POST /api/products with a body that passed insertProductSchema
CatalogCreateProduct ==
  \E sku \in Skus, price \in Prices, costPrice \in CostPrices,
     n \in 0..MaxCatalogStock, statsFail \in BOOLEAN, up \in BOOLEAN :
    LET body == [sku |-> sku, price |-> price, costPrice |-> costPrice,
                 stockQuantity |-> n]
    IN /\ nextProductId <= MaxCatalogProducts
       /\ Commit(postProduct(DB, body, statsFail, up),
                 [op |-> "createProduct", productId |-> nextProductId,
                  stockQuantity |-> n, body |-> body,
                  statsFail |-> statsFail, pre |-> Pre])

\* DELETE /api/products/:id -> storage.deleteProduct
CatalogDeleteProduct ==
  \E id \in 1..MaxCatalogProducts :
    Commit(deleteProduct(DB, id),
           [op |-> "deleteProduct", productId |-> id, pre |-> Pre])

CatalogNext ==
  \/ CatalogCreateProduct
  \/ CatalogDeleteProduct

CatalogSpec == Init /\ [][CatalogNext]_vars

\* ------------------------------------------------------------ returns
\* The items and the credit of a request: POST /api/returns validates
\* neither.  The credits are whole cents, or just under half a cent more.
ReturnItemInputs ==
  UNION {[1..n -> [productId : ProductIds, quantity : 0..MaxQty]] :
           n \in 0..MaxItems}
CreditAmountInputs ==
  {<<>>} \cup {<<[digits |-> <<Epsilon * c>>, junk |-> FALSE]>> :
                 c \in 0..MaxCents}
         \cup {<<[digits |-> <<Epsilon * c + Epsilon \div 2 - 1>>,
                  junk |-> FALSE]>> : c \in 0..1}

\* POST /api/returns
PostReturn ==
  /\ Len(returns) < MaxReturns
  /\ nextCode <= MaxCodes
  /\ \E orderId \in 1..MaxOrders, items \in ReturnItemInputs,
        creditAmount \in CreditAmountInputs, customerEmail \in BOOLEAN,
        codeFail \in BOOLEAN, emailFail \in BOOLEAN, up \in BOOLEAN :
    LET body == [orderId |-> orderId, items |-> items,
                 creditAmount |-> creditAmount,
                 customerEmail |-> customerEmail]
        r == postReturn(DB, discountCodes, nextCode, body, codeFail,
                        emailFail, up)
    IN /\ InBounds(r.store)
       /\ Install(r.store)
       /\ discountCodes' = r.table
       /\ nextCode' = IF r.minted THEN nextCode + 1 ELSE nextCode
       /\ last' = [op |-> "postReturn", body |-> body,
                   codeFail |-> codeFail, emailFail |-> emailFail,
                   response |-> r.response, sent |-> r.sent,
                   pre |-> Pre, preCodes |-> discountCodes]
       /\ UNCHANGED <<dialog, procs>>

ReturnNext ==
  \/ CreateProduct
  \/ CreateOrder
  \/ PostReturn

ReturnSpec == Init /\ [][ReturnNext]_vars

\* ------------------------------------------------------ failing writes
\* POST /api/orders when a write of storage.createOrder throws: the route
\* answers 500
CreateOrderFailing ==
  /\ Len(orders) < MaxOrders
  /\ \E items \in Items, k \in 1..MaxItems, w \in 1..6 :
       /\ k <= Len(items)
       /\ LET id == Len(orders) + 1
              Dk == createOrderItems(
                      [DB EXCEPT !.orders = Append(@, NewOrder(id))], id,
                      SubSeq(items, 1, k - 1))
          IN w <= Len(OrderItemWrites(Dk, id, items[k]))
       /\ LET R == createOrderFailing(DB, items, k, w)
          IN /\ InBounds(R)
             /\ Commit(R, [op |-> "createOrderFailing", items |-> items,
                           k |-> k, w |-> w, status |-> "500",
                           pre |-> Pre])

OrderFailNext ==
  \/ CreateProduct
  \/ CreateOrderFailing
  \/ GetStockStats

OrderFailSpec == Init /\ [][OrderFailNext]_vars

\* ------------------------------------------------- requests in flight
\* A request arrives: a free slot takes it
Start(i, pr) ==
  /\ procs[i] = Idle
  /\ procs' = [procs EXCEPT ![i] = pr]
  /\ UNCHANGED <<invVars, discVars, dialog, last>>

\* A request in flight runs its next statement
Run(i, r) ==
  /\ Install(r.store)
  /\ procs' = [procs EXCEPT ![i] = r.proc]
  /\ UNCHANGED <<discVars, dialog, last>>

StartPostProduct ==
  \E i \in Requests, sku \in Skus, n \in 0..1 :
    Start(i, [op |-> "postProduct", pc |-> "getProductBySKU",
              body |-> [sku |-> sku, price |-> Unit,
                        costPrice |-> NullCostPrice, stockQuantity |-> n],
              id |-> 0, product |-> <<>>])

StepPostProduct ==
  \E i \in Requests :
    /\ procs[i].op = "postProduct"
    /\ \E existing \in ExistingBySKU(DB, procs[i].body.sku) :
         Run(i, postProductStep(DB, procs[i], existing))

StartPatchProduct ==
  \E i \in Requests, id \in 1..MaxCatalogProducts, sku \in Skus,
     n \in 0..1 :
    Start(i, [op |-> "patchProduct", pc |-> "getProductBySKU", id |-> id,
              body |-> [sku |-> sku, price |-> Unit,
                        costPrice |-> NullCostPrice, stockQuantity |-> n]])

StepPatchProduct ==
  \E i \in Requests :
    /\ procs[i].op = "patchProduct"
    /\ \E existing \in ExistingBySKU(DB, procs[i].body.sku) :
         Run(i, patchProductStep(DB, procs[i], existing))

StartGetStockStats ==
  \E i \in Requests :
    Start(i, [op |-> "getStockStats", pc |-> "selectProducts",
              allProducts |-> <<>>, todo |-> <<>>, existing |-> FALSE])

StepGetStockStats ==
  \E i \in Requests :
    /\ procs[i].op = "getStockStats"
    /\ Run(i, getStockStatsStep(DB, procs[i]))

CatalogRaceNext ==
  \/ CreateProduct
  \/ StartPostProduct
  \/ StepPostProduct
  \/ StartPatchProduct
  \/ StepPatchProduct
  \/ StartGetStockStats
  \/ StepGetStockStats

CatalogRaceSpec == Init /\ [][CatalogRaceNext]_vars

\* ------------------------------------------------------------ the ledgers
\* POST /api/products of a product with a cost price below its price, so
\* that the accounts ledger gets a row
LedgerCreateProduct ==
  \E n \in 1..MaxQty, up \in BOOLEAN :
    LET body == [sku |-> nextProductId, price |-> 2 * Unit,
                 costPrice |-> CostPrice(Unit), stockQuantity |-> n]
    IN /\ nextProductId <= MaxProducts
       /\ Commit(postProduct(DB, body, FALSE, up),
                 [op |-> "createProduct", productId |-> nextProductId,
                  stockQuantity |-> n, body |-> body,
                  statsFail |-> FALSE, pre |-> Pre])

LedgerNext ==
  \/ LedgerCreateProduct
  \/ DeleteProduct
  \/ CreateOrder
  \/ CreateReturn
  \/ CreateStockMovement
  \/ GetStockStats

LedgerSpec == Init /\ [][LedgerNext]_vars

\* ------------------------------------------------- stock in flight
\* The movement createOrder and createReturn make of an item
ItemMovement(item, type, reason) ==
  [productId |-> item.productId, type |-> type, quantity |-> item.quantity,
   reason |-> reason]

\* POST /api/orders of one item arrives
StartCreateOrder ==
  \E i \in Requests, id \in ProductIds, quantity \in Quantities :
    LET item == [productId |-> id, quantity |-> quantity]
    IN Start(i, [op |-> "createOrder", pc |-> "insertOrder", item |-> item,
                 id |-> 0, product |-> <<>>, newStockQuantity |-> 0,
                 stats |-> <<>>,
                 movement |-> ItemMovement(item, "out", "sale"),
                 movementProduct |-> <<>>, finalQuantity |-> 0,
                 movementStats |-> <<>>])

StepCreateOrder ==
  \E i \in Requests :
    /\ procs[i].op = "createOrder"
    /\ Run(i, createOrderStep(DB, procs[i]))

\* POST /api/returns of one item arrives
StartCreateReturn ==
  \E i \in Requests, id \in ProductIds, quantity \in Quantities :
    LET item == [productId |-> id, quantity |-> quantity]
    IN Start(i, [op |-> "createReturn", pc |-> "insertReturn",
                 data |-> [orderId |-> MaxOrders], item |-> item, id |-> 0,
                 product |-> <<>>, stats |-> <<>>,
                 movement |-> ItemMovement(item, "in", "return"),
                 movementProduct |-> <<>>, finalQuantity |-> 0,
                 movementStats |-> <<>>])

StepCreateReturn ==
  \E i \in Requests :
    /\ procs[i].op = "createReturn"
    /\ Run(i, createReturnStep(DB, procs[i]))

\* POST /api/stock-movements arrives
StartCreateStockMovement ==
  \E i \in Requests, id \in ProductIds, type \in {"in", "out", "adjustment"},
     quantity \in Quantities, reason \in Reasons :
    Start(i, [op |-> "createStockMovement", pc |-> "insertMovement",
              movement |-> [productId |-> id, type |-> type,
                            quantity |-> quantity, reason |-> reason],
              movementProduct |-> <<>>, finalQuantity |-> 0,
              movementStats |-> <<>>])

StepCreateStockMovement ==
  \E i \in Requests :
    /\ procs[i].op = "createStockMovement"
    /\ Run(i, createStockMovementStep(DB, procs[i], Done))

\* POST /api/products of a product without a cost price, with little or no
\* stock
StockCreateProduct ==
  \E n \in 0..1 :
    LET body == [sku |-> nextProductId, price |-> Unit,
                 costPrice |-> NullCostPrice, stockQuantity |-> n]
    IN /\ nextProductId <= MaxProducts
       /\ Commit(postProduct(DB, body, FALSE, FALSE),
                 [op |-> "createProduct", productId |-> nextProductId,
                  stockQuantity |-> n, body |-> body,
                  statsFail |-> FALSE, pre |-> Pre])

StockRaceNext ==
  \/ StockCreateProduct
  \/ StartCreateOrder
  \/ StepCreateOrder
  \/ StartCreateReturn
  \/ StepCreateReturn
  \/ StartCreateStockMovement
  \/ StepCreateStockMovement
  \/ StartGetStockStats
  \/ StepGetStockStats

StockRaceSpec == Init /\ [][StockRaceNext]_vars

\* ------------------------------------------------- orders in flight
\* POST /api/orders requests of one item each, on a product with stock
OrderRaceNext ==
  \/ CreateProduct
  \/ StartCreateOrder
  \/ StepCreateOrder

OrderRaceSpec == Init /\ [][OrderRaceNext]_vars

\* ------------------------------------------------- credit in flight
\* Amounts of whole cents
CentStrings ==
  {[digits |-> <<Epsilon * c>>, junk |-> FALSE] : c \in 1..MaxCents}

\* POST /api/discount-codes/:code/use arrives
StartUseDiscountCode ==
  \E i \in Requests, code \in Codes, amountUsed \in CentStrings,
     below \in BOOLEAN, up \in BOOLEAN :
    Start(i, [op |-> "useDiscountCode", pc |-> "getDiscountCode",
              code |-> code, usedAmount |-> parseFloat(amountUsed),
              below |-> below, up |-> up, discountCode |-> <<>>,
              remainingAmount |-> 0])

StepUseDiscountCode ==
  \E i \in Requests :
    /\ procs[i].op = "useDiscountCode"
    /\ LET r == useDiscountCodeStep(discountCodes, procs[i])
       IN /\ discountCodes' = r.table
          /\ procs' = [procs EXCEPT ![i] = r.proc]
          /\ UNCHANGED <<invVars, nextCode, dialog, last>>

DiscountRaceNext ==
  \/ CreateDiscountCode
  \/ StartUseDiscountCode
  \/ StepUseDiscountCode

DiscountRaceSpec == Init /\ [][DiscountRaceNext]_vars

\* ------------------------------------------------- the ledger and stats
\* insertStockMovementSchema takes any non-empty reason: the reasons
\* createOrder and createReturn write
LedgerReasons == {"sale", "return"}

\* POST /api/stock-movements with a reason of LedgerReasons
CreateLedgerReasonMovement ==
  \E id \in ProductIds, type \in {"in", "out", "adjustment"},
     quantity \in Quantities, reason \in LedgerReasons :
    LET m == [productId |-> id, type |-> type, quantity |-> quantity,
              reason |-> reason]
        R == createStockMovement(DB, m)
    IN /\ InBounds(R)
       /\ Commit(R, [op |-> "createStockMovement", movement |-> m,
                     pre |-> Pre])

ReconcileNext ==
  \/ CreateProduct
  \/ CreateOrder
  \/ CreateReturn
  \/ CreateLedgerReasonMovement

ReconcileSpec == Init /\ [][ReconcileNext]_vars

\* ------------------------------------------------- editing an order
\* insertOrderSchema, status
OrderStatuses ==
  {"pending", "processing", "shipped", "delivered", "cancelled"}

\* PATCH /api/orders/:id -> storage.updateOrder
UpdateOrder ==
  \E id \in 1..MaxOrders, status \in OrderStatuses :
    Commit(updateOrder(DB, id, [status |-> status]),
           [op |-> "updateOrder", id |-> id, status |-> status,
            pre |-> Pre])

OrderEditNext ==
  \/ CreateProduct
  \/ CreateOrder
  \/ UpdateOrder

OrderEditSpec == Init /\ [][OrderEditNext]_vars

\* ------------------------------------------------------ the return dialog
DialogProductIds == 1..MaxDialogProducts

\* The orders the dialog opens on
DialogOrders ==
  UNION {[1..n -> [productId : DialogProductIds, quantity : Quantities,
                   unitPrice : {Text(v) : v \in Prices}]] :
           n \in 1..MaxItems}

\* What GET /api/products answers: some products, each with a price
ProductLists ==
  UNION {[S -> [price : {Text(k * Unit) : k \in 0..MaxPrice}]] :
           S \in SUBSET DialogProductIds}

\* The dialog opened on an order (useEffect, lines 78-92)
DialogInit ==
  /\ StoreInit
  /\ dialog \in {Render(order, productList, InitialReturnItems(order)) :
                   order \in DialogOrders, productList \in ProductLists}

\* The - and + buttons of a row (lines 307, 317)
UpdateQuantity ==
  \E i \in DOMAIN dialog.returnItems, step \in {-1, 1}, up \in BOOLEAN :
    LET item == dialog.returnItems[i]
    IN /\ dialog' = Render(dialog.order, dialog.products,
                           updateQuantity(dialog.order, dialog.returnItems,
                                          item.productId,
                                          item.quantity + step, up))
       /\ UNCHANGED <<invVars, discVars, last, procs>>

\* Choosing, scanning or clearing the exchange product of a row (lines 160,
\* 171, 336)
SetExchangeProduct ==
  \E i \in DOMAIN dialog.returnItems,
     exchangeProductId \in {<<>>} \cup {<<p>> : p \in DOMAIN dialog.products} :
    /\ dialog' = Render(dialog.order, dialog.products,
                        setExchangeProduct(dialog.returnItems,
                                           dialog.returnItems[i].productId,
                                           exchangeProductId))
    /\ UNCHANGED <<invVars, discVars, last, procs>>

\* useQuery, lines 57-59: the product list is fetched anew
ProductsRefetched ==
  \E productList \in ProductLists :
    /\ dialog' = Render(dialog.order, productList, dialog.returnItems)
    /\ UNCHANGED <<invVars, discVars, last, procs>>

DialogNext ==
  \/ UpdateQuantity
  \/ SetExchangeProduct
  \/ ProductsRefetched

DialogSpec == DialogInit /\ [][DialogNext]_vars

\* ================================================================ claims
\* The call that has just completed, and the tables it started from.
Did(op) == last.op = op
PreStock(p)  == last.pre.products[p].stockQuantity
PreStats(p)  == SelectSeq(last.pre.stockStats, LAMBDA r : r.productId = p)
NowStats(p)  == SelectSeq(stockStats, LAMBDA r : r.productId = p)
Existed(p)   == p \in DOMAIN last.pre.products

\* The summed quantity of the items of product p
RECURSIVE ItemQuantity(_, _)
ItemQuantity(items, p) ==
  IF items = <<>> THEN 0
  ELSE (IF Head(items).productId = p THEN Head(items).quantity ELSE 0)
       + ItemQuantity(Tail(items), p)

\* C1: after every completed createOrder, createReturn and
\* createStockMovement (and product creation and deletion), every product's
\* stockQuantity is >= 0.
C1_StockNonNegative ==
  \A p \in DOMAIN products : products[p].stockQuantity >= 0

\* C1 witness: a sale of more than the stock has completed and left 0.
C1_Witness ==
  /\ Did("createOrder")
  /\ \E p \in DOMAIN products :
       /\ Existed(p)
       /\ ItemQuantity(last.items, p) > PreStock(p)
       /\ products[p].stockQuantity = 0

\* C2: createOrder with a single item of quantity q for an existing product
\* of stock s leaves that product's stockQuantity at max(0, s - q).
C2_SaleLeavesStockMinusQuantity ==
  (Did("createOrder") /\ Len(last.items) = 1
     /\ Existed(last.items[1].productId))
  => products[last.items[1].productId].stockQuantity
       = Max(0, PreStock(last.items[1].productId) - last.items[1].quantity)

\* C3: createReturn with a single item of quantity q for an existing product
\* of stock s leaves that product's stockQuantity at s + q.
C3_ReturnLeavesStockPlusQuantity ==
  (Did("createReturn") /\ Len(last.items) = 1
     /\ Existed(last.items[1].productId))
  => products[last.items[1].productId].stockQuantity
       = PreStock(last.items[1].productId) + last.items[1].quantity

\* C4: after createOrder, every sold product that has a stats row has
\* stats.available equal to its stockQuantity.
C4_SaleAvailableIsStock ==
  Did("createOrder") =>
    \A i \in DOMAIN last.items :
      LET p == last.items[i].productId
      IN Existed(p) =>
           \A j \in DOMAIN NowStats(p) :
             NowStats(p)[j].available = products[p].stockQuantity

\* C5: createOrder adds to stats.sold of every product that exists and has a
\* stats row exactly the quantities of the items sold of it, and leaves
\* stats.returned and stats.purchased as they were.
C5_SaleAddsQuantityToSold ==
  Did("createOrder") =>
    /\ Len(stockStats) = Len(last.pre.stockStats)
    /\ \A i \in DOMAIN stockStats :
         LET old == last.pre.stockStats[i]
             new == stockStats[i]
             q   == IF Existed(old.productId)
                    THEN ItemQuantity(last.items, old.productId) ELSE 0
         IN /\ new.productId = old.productId
            /\ new.sold = old.sold + q
            /\ new.returned = old.returned
            /\ new.purchased = old.purchased

\* C5 witness: an order of two items of one product with a stats row has
\* completed, the quantities being 1 and 2.
C5_Witness ==
  /\ Did("createOrder")
  /\ Len(last.items) = 2
  /\ last.items[1].productId = last.items[2].productId
  /\ last.items[1].quantity # last.items[2].quantity
  /\ Existed(last.items[1].productId)
  /\ PreStats(last.items[1].productId) # <<>>
  /\ NowStats(last.items[1].productId)[1].sold = 3

\* C6: createReturn adds to stats.returned of every product that exists and
\* has a stats row exactly the quantities of the items returned of it, and
\* leaves stats.sold and stats.purchased as they were.
C6_ReturnAddsQuantityToReturned ==
  Did("createReturn") =>
    /\ Len(stockStats) = Len(last.pre.stockStats)
    /\ \A i \in DOMAIN stockStats :
         LET old == last.pre.stockStats[i]
             new == stockStats[i]
             q   == IF Existed(old.productId)
                    THEN ItemQuantity(last.items, old.productId) ELSE 0
         IN /\ new.productId = old.productId
            /\ new.returned = old.returned + q
            /\ new.sold = old.sold
            /\ new.purchased = old.purchased

\* C6 witness: a return of quantity 2 of a product that had sold units and
\* a stats row has completed.
C6_Witness ==
  /\ Did("createReturn")
  /\ \E p \in DOMAIN products :
       /\ Existed(p)
       /\ PreStats(p) # <<>>
       /\ PreStats(p)[1].sold > 0
       /\ ItemQuantity(last.items, p) = 2
       /\ NowStats(p)[1].returned = 2

\* C7: createStockMovement of type adjustment and quantity v on an existing
\* product sets its stockQuantity to max(0, v), whatever it was before.
C7_AdjustmentSetsStock ==
  (Did("createStockMovement") /\ last.movement.type = "adjustment"
     /\ Existed(last.movement.productId))
  => products[last.movement.productId].stockQuantity
       = Max(0, last.movement.quantity)

\* C7 witness: an adjustment to 1 of a product that had more than 1 in stock
\* has completed.
C7_Witness ==
  /\ Did("createStockMovement")
  /\ last.movement.type = "adjustment"
  /\ last.movement.quantity = 1
  /\ Existed(last.movement.productId)
  /\ PreStock(last.movement.productId) > 1
  /\ products[last.movement.productId].stockQuantity = 1

\* C8: createStockMovement on an existing product of stock s with quantity q
\* sets its stockQuantity to s + q for type in and to max(0, s - q) for type
\* out.
C8_InAddsOutSubtractsClamped ==
  (Did("createStockMovement") /\ Existed(last.movement.productId)) =>
    LET p == last.movement.productId
        q == last.movement.quantity
    IN /\ last.movement.type = "in"
            => products[p].stockQuantity = PreStock(p) + q
       /\ last.movement.type = "out"
            => products[p].stockQuantity = Max(0, PreStock(p) - q)

\* C8 witness: an in movement and then an out movement of more than the
\* stock have completed on one product.
C8_Witness ==
  /\ Did("createStockMovement")
  /\ last.movement.type = "out"
  /\ Existed(last.movement.productId)
  /\ PreStock(last.movement.productId) > 0
  /\ last.movement.quantity > PreStock(last.movement.productId)
  /\ Len(stockMovements) = 2
  /\ stockMovements[1].type = "in"
  /\ stockMovements[1].productId = last.movement.productId
  /\ stockMovements[1].reason # "return"

\* C9: the rows getStockStats returns hold, for every existing product, a
\* row of that product, and every returned row of an existing product has
\* available equal to that product's stockQuantity, whatever the stats
\* table held before.
C9_BulkStatsAvailableIsStock ==
  Did("getStockStats") =>
    \A p \in DOMAIN products :
      LET rows == SelectSeq(last.result, LAMBDA r : r.productId = p)
      IN /\ rows # <<>>
         /\ \A i \in DOMAIN rows :
              rows[i].available = products[p].stockQuantity

\* C9 witness: getStockStats has completed on a product whose stats row
\* held an available other than its stockQuantity.
C9_Witness ==
  /\ Did("getStockStats")
  /\ \E p \in DOMAIN products :
       /\ PreStats(p) # <<>>
       /\ PreStats(p)[1].available # PreStock(p)

\* C10: useDiscountCode on an existing code of balance B with an amount a,
\* B - 0.01 < a <= B, reports wasDeleted and leaves no row with that code.
C10_RedeemWithinEpsilonDeletes ==
  (Did("useDiscountCode") /\ getDiscountCode(last.pre, last.code) # <<>>
     /\ ~last.usedAmount.isNaN
     /\ getDiscountCode(last.pre, last.code)[1].amount - Epsilon
          < last.usedAmount.v
     /\ last.usedAmount.v <= getDiscountCode(last.pre, last.code)[1].amount)
  => /\ last.result.wasDeleted
     /\ getDiscountCode(discountCodes, last.code) = <<>>

\* C10 witness: a code has been redeemed for less than its balance, within
\* a cent of it, and is gone.
C10_Witness ==
  /\ Did("useDiscountCode")
  /\ getDiscountCode(last.pre, last.code) # <<>>
  /\ ~last.usedAmount.isNaN
  /\ last.usedAmount.v < getDiscountCode(last.pre, last.code)[1].amount
  /\ last.usedAmount.v
       > getDiscountCode(last.pre, last.code)[1].amount - Epsilon
  /\ last.result.wasDeleted
  /\ getDiscountCode(discountCodes, last.code) = <<>>

\* The row of the redeemed code as the call found it
PreCode == getDiscountCode(last.pre, last.code)

\* The whole numbers of cents nearest to an amount in thousandths
NearestCents(amount) ==
  {c \in (amount - 5)..(amount + 5) : c % 10 = 0}

C12_RedeemMoreThanBalanceRejected ==
  (Did("useDiscountCode") /\ PreCode # <<>> /\ ~last.usedAmount.isNaN
     /\ last.usedAmount.v > PreCode[1].amount)
  => /\ last.result.error = "exceeds available credit"
     /\ last.result.wasFound
     /\ ~last.result.wasDeleted
     /\ last.result.updated = <<>>
     /\ discountCodes = last.pre

\* C12 witness: a redemption of a thousandth more than the balance has
\* been rejected.
C12_Witness ==
  /\ Did("useDiscountCode")
  /\ PreCode # <<>>
  /\ ~last.usedAmount.isNaN
  /\ last.usedAmount.v = PreCode[1].amount + 1
  /\ last.result.error = "exceeds available credit"
  /\ getDiscountCode(discountCodes, last.code) = PreCode

\* C13: useDiscountCode with a non-numeric or non-positive amount on an
\* existing code returns the invalid-amount error and leaves every code and
\* balance as it was; on an unknown code it reports wasFound = false and
\* changes nothing.
C13_InvalidAmountOrUnknownCodeChangesNothing ==
  Did("useDiscountCode") =>
    /\ (PreCode # <<>>
          /\ (~IsNumeric(last.amountUsed) \/ last.usedAmount.v <= 0))
       => /\ last.result.error = "Amount used must be a positive number"
          /\ discountCodes = last.pre
    /\ PreCode = <<>>
       => /\ ~last.result.wasFound
          /\ discountCodes = last.pre

\* The last call was a POST /api/products that answered 201: its SKU was
\* free and createProduct returned.
Created ==
  /\ Did("createProduct")
  /\ ~last.statsFail
  /\ getProductBySKU(last.pre, last.body.sku) = {}

\* The accounts rows the last call appended
NewEntries ==
  SubSeq(accounts, Len(last.pre.accounts) + 1, Len(accounts))

\* C15 as claimed: creating a product with costPrice present, price p, cost
\* c and initial stockQuantity n writes exactly one purchase entry, of
\* profit n * (p - c), for every n >= 0 and every p, c.
C15_CostPriceWritesOnePurchaseEntry ==
  (Created /\ last.body.costPrice.present)
  => /\ Len(NewEntries) = 1
     /\ NewEntries[1].transactionType = "purchase"
     /\ NewEntries[1].profit
          = last.body.stockQuantity
              * (last.body.price - last.body.costPrice.v)

\* C15 as amended: creating a product with costPrice present, price p, cost
\* c and initial stockQuantity n writes exactly one purchase entry, of
\* profit n * (p - c) (negative when c > p), when n > 0 and p # c, and no
\* entry when n = 0 or p = c; the entries already there stay as they were.
C15_CostPriceWritesPurchaseEntryUnlessZero ==
  (Created /\ last.body.costPrice.present)
  => LET n == last.body.stockQuantity
         p == last.body.price
         c == last.body.costPrice.v
     IN /\ SubSeq(accounts, 1, Len(last.pre.accounts)) = last.pre.accounts
        /\ (n > 0 /\ p # c)
           => /\ Len(NewEntries) = 1
              /\ NewEntries[1].transactionType = "purchase"
              /\ NewEntries[1].productId = last.productId
              /\ NewEntries[1].quantity = n
              /\ NewEntries[1].profit = n * (p - c)
        /\ (n = 0 \/ p = c) => NewEntries = <<>>

\* C15 witness: a product of price 1, cost 2 and stock 2 has been created
\* and the ledger has got one entry, of profit -2.
C15_Witness ==
  /\ Created
  /\ last.body.costPrice = CostPrice(2 * Unit)
  /\ last.body.price = Unit
  /\ last.body.stockQuantity = 2
  /\ last.productId \in DOMAIN products
  /\ Len(NewEntries) = 1
  /\ NewEntries[1].profit = -2 * Unit

\* C16: creating a product with costPrice absent writes no accounts entry:
\* the accounts ledger is as it was before the call.
C16_NoCostPriceNoEntry ==
  (Did("createProduct") /\ ~last.body.costPrice.present)
  => accounts = last.pre.accounts

\* C16 witness: a product with stock and no cost price has been created
\* while the ledger held an entry, and the ledger is as it was.
C16_Witness ==
  /\ Created
  /\ ~last.body.costPrice.present
  /\ last.body.stockQuantity > 0
  /\ last.productId \in DOMAIN products
  /\ last.pre.accounts # <<>>
  /\ accounts = last.pre.accounts

\* C17: a createProduct that returns, of initial stockQuantity n, creates
\* one stats row for the new product, with purchased = n, available = n,
\* sold = 0 and returned = 0, and appends no stock movement.
C17_CreateProductInitialisesStats ==
  Created
  => /\ NowStats(last.productId)
          = <<[productId |-> last.productId,
               available |-> last.stockQuantity, sold |-> 0,
               returned |-> 0, purchased |-> last.stockQuantity]>>
     /\ stockMovements = last.pre.stockMovements

\* C17 witness: a product of initial stock 2 has been created while the
\* movement ledger held a movement, and has its stats row.
C17_Witness ==
  /\ Created
  /\ last.stockQuantity = 2
  /\ last.pre.stockMovements # <<>>
  /\ NowStats(last.productId) # <<>>
  /\ NowStats(last.productId)[1].purchased = 2

\* C18: a manual createStockMovement on a product with a stats row sets
\* available to the new stock; it adds the quantity to purchased if the
\* reason is exactly "purchase" and leaves purchased as it was for any other
\* reason; sold and returned are as they were.
C18_PurchaseReasonAddsToPurchased ==
  (Did("createStockMovement") /\ Existed(last.movement.productId)
     /\ PreStats(last.movement.productId) # <<>>)
  => LET p   == last.movement.productId
         old == PreStats(p)[1]
         new == NowStats(p)[1]
     IN /\ Len(NowStats(p)) = Len(PreStats(p))
        /\ new.available = products[p].stockQuantity
        /\ new.sold = old.sold
        /\ new.returned = old.returned
        /\ new.purchased = IF last.movement.reason = "purchase"
                           THEN old.purchased + last.movement.quantity
                           ELSE old.purchased

\* C18 witness: a movement in of quantity 2 with reason "Purchase" has
\* completed on a product with a stats row, and purchased is as it was.
C18_Witness ==
  /\ Did("createStockMovement")
  /\ Existed(last.movement.productId)
  /\ PreStats(last.movement.productId) # <<>>
  /\ last.movement.reason = "Purchase"
  /\ last.movement.type = "in"
  /\ last.movement.quantity = 2
  /\ NowStats(last.movement.productId)[1].purchased
       = PreStats(last.movement.productId)[1].purchased
  /\ NowStats(last.movement.productId)[1].available
       = PreStock(last.movement.productId) + 2

\* C19: createStockMovement appends exactly one stock movement, with the
\* caller's product, type, reason and quantity as given; an adjustment
\* records its target quantity, not the distance from the stock it found.
C19_MovementRecordedVerbatim ==
  Did("createStockMovement")
  => stockMovements = Append(last.pre.stockMovements, last.movement)

\* C19 witness: an adjustment to 2 of a product that had 1 in stock has
\* completed and the ledger ends with a movement of quantity 2.
C19_Witness ==
  /\ Did("createStockMovement")
  /\ last.movement.type = "adjustment"
  /\ last.movement.quantity = 2
  /\ Existed(last.movement.productId)
  /\ PreStock(last.movement.productId) = 1
  /\ stockMovements # <<>>
  /\ stockMovements[Len(stockMovements)].quantity = 2

\* C20: createOrder appends, for every order item, exactly one stock
\* movement of type out, reason sale and the item's quantity, in the order
\* of the items.
C20_OneSaleMovementPerItem ==
  Did("createOrder")
  => stockMovements
       = last.pre.stockMovements
           \o [i \in DOMAIN last.items |->
                 [productId |-> last.items[i].productId, type |-> "out",
                  quantity |-> last.items[i].quantity, reason |-> "sale"]]

\* C14: the totals the return dialog computes have at most one of refund,
\* credit and additionalPayment non-zero; with exchangeValue = 0 the refund
\* is the return value; with exchangeValue > 0 and d = returnValue -
\* exchangeValue, credit = d if d > 0, additionalPayment = |d| if d < 0, and
\* all three are 0 if d = 0.
C14_OutcomesMutuallyExclusive ==
  LET t == dialog.totals
      d == t.total - t.exchangeValue
  IN /\ Cardinality({f \in {"refund", "credit", "additionalPayment"} :
                       t[f] # 0}) <= 1
     /\ t.exchangeValue = 0
        => t.refund = t.total /\ t.credit = 0 /\ t.additionalPayment = 0
     /\ t.exchangeValue > 0
        => /\ t.refund = 0
           /\ t.credit = IF d > 0 THEN d ELSE 0
           /\ t.additionalPayment = IF d < 0 THEN -d ELSE 0

\* C14 witness: two units of an item of price 2 are returned, one of its
\* rows is exchanged for a product of price 1, and the dialog shows a
\* credit and no refund.
C14_Witness ==
  /\ \E i \in DOMAIN dialog.returnItems :
       /\ dialog.returnItems[i].quantity > 0
       /\ dialog.returnItems[i].exchangeProductId # <<>>
  /\ dialog.totals.total = 4 * Unit
  /\ dialog.totals.exchangeValue = 2 * Unit
  /\ dialog.totals.credit = 2 * Unit
  /\ dialog.totals.refund = 0

\* C21: deleteProduct leaves the stock movements, the order items, the
\* return items and the account entries as they were, whether or not the
\* product existed; it removes the product row and the product's stats rows
\* and nothing else.
C21_DeleteProductKeepsLedgers ==
  [][last'.op = "deleteProduct"
       => /\ stockMovements' = stockMovements
          /\ orderItems' = orderItems
          /\ returnItems' = returnItems
          /\ accounts' = accounts
          /\ orders' = orders
          /\ returns' = returns
          /\ products' = [p \in DOMAIN products \ {last'.productId} |->
                            products[p]]
          /\ stockStats' = SelectSeq(stockStats,
                             LAMBDA r : r.productId # last'.productId)]_vars

\* C21 witness: a product with a sale, a return and an account entry to its
\* name has been deleted, and the four ledgers still hold its rows.
C21_Witness ==
  /\ Did("deleteProduct")
  /\ Existed(last.productId)
  /\ last.productId \notin DOMAIN products
  /\ \E i \in DOMAIN stockMovements :
       stockMovements[i].productId = last.productId
  /\ \E i \in DOMAIN orderItems : orderItems[i].productId = last.productId
  /\ \E i \in DOMAIN returnItems : returnItems[i].productId = last.productId
  /\ \E i \in DOMAIN accounts : accounts[i].productId = last.productId

\* C29: the stock-movement ledger is append-only: every step of the storage
\* layer leaves the movements already written in place, with their fields
\* as they were, and at most adds movements after them.
C29_MovementLedgerAppendOnly ==
  [][/\ Len(stockMovements') >= Len(stockMovements)
     /\ SubSeq(stockMovements', 1, Len(stockMovements)) = stockMovements]_vars

\* C29 witness: a second movement of a product has been written and the
\* first one is still there, as it was.
C29_Witness ==
  /\ Did("createStockMovement")
  /\ Len(last.pre.stockMovements) = 1
  /\ last.pre.stockMovements[1].productId = last.movement.productId
  /\ Len(stockMovements) = 2
  /\ stockMovements[1] = last.pre.stockMovements[1]

\* The store as the last POST /api/returns found it: the tables it writes
\* as they were, the tables it does not write as they are.
PreStore ==
  [products |-> last.pre.products, stockStats |-> last.pre.stockStats,
   stockMovements |-> last.pre.stockMovements,
   accounts |-> last.pre.accounts, returns |-> last.pre.returns,
   returnItems |-> last.pre.returnItems, orders |-> orders,
   orderItems |-> orderItems, nextProductId |-> nextProductId]

\* The last POST /api/returns asked for a store credit: a credit above zero
\* and a customer email
CreditAsked ==
  /\ last.body.customerEmail
  /\ last.body.creditAmount # <<>>
  /\ last.body.creditAmount[1].digits # <<>>
  /\ last.body.creditAmount[1].digits[1] > 0

\* C22: when the discount-code creation or the notification mail of a
\* POST /api/returns fails, the request still answers 200 with the created
\* return, and the return row, its items and its stock, movement and stats
\* effects are those of storage.createReturn, all persisted.
C22_CreditFailureKeepsReturn ==
  (Did("postReturn") /\ CreditAsked
     /\ (last.codeFail \/ last.emailFail))
  => /\ last.response.status = "200"
     /\ Len(returns) = Len(last.pre.returns) + 1
     /\ last.response.return = <<returns[Len(returns)].id>>
     /\ Len(returnItems)
          = Len(last.pre.returnItems) + Len(last.body.items)
     /\ DB = createReturn(PreStore, [orderId |-> last.body.orderId],
                          last.body.items)
     /\ last.codeFail => discountCodes = last.preCodes

\* C22 witness: a return of one unit of an existing product asked for a
\* store credit, the discount code could not be created, and the request
\* answered 200 with the return persisted and the stock raised.
C22_Witness ==
  /\ Did("postReturn")
  /\ CreditAsked
  /\ last.codeFail
  /\ last.response.status = "200"
  /\ Len(last.body.items) = 1
  /\ last.body.items[1].quantity = 1
  /\ last.body.items[1].productId \in DOMAIN last.pre.products
  /\ products[last.body.items[1].productId].stockQuantity
       > last.pre.products[last.body.items[1].productId].stockQuantity
  /\ Len(returns) = Len(last.pre.returns) + 1
  /\ discountCodes = last.preCodes

\* C25: a POST /api/returns with no item of quantity > 0 is rejected: it
\* persists no return record and no return item and changes no stock.
C25_EmptyReturnRejected ==
  (Did("postReturn")
     /\ \A i \in DOMAIN last.body.items : last.body.items[i].quantity = 0)
  => /\ last.response.status # "200"
     /\ returns = last.pre.returns
     /\ returnItems = last.pre.returnItems
     /\ products = last.pre.products

\* The quantity of product p that order orderId holds
Ordered(orderId, p) ==
  ItemQuantity(SelectSeq(orderItems, LAMBDA oi : oi.orderId = orderId), p)

\* C26: every persisted return item has a quantity that is at most the
\* quantity ordered of its product in the order its return refers to.
C26_ReturnedAtMostOrdered ==
  \A i \in DOMAIN returnItems :
    \A j \in DOMAIN returns :
      returns[j].id = returnItems[i].returnId
      => returnItems[i].quantity
           <= Ordered(returns[j].orderId, returnItems[i].productId)

\* C30: when a write fails while createOrder processes item k, the error
\* surfaces (the route answers 500) and nothing is rolled back: the order
\* row, the order items 1..k-1 and the stock, movement and stats effects of
\* the items 1..k-1 are persisted, followed by whatever item k wrote before
\* the failure.
C30_FailedOrderKeepsEarlierItems ==
  Did("createOrderFailing")
  => LET id    == Len(last.pre.orders) + 1
         first == SubSeq(last.items, 1, last.k - 1)
         Dk    == createOrder(last.pre, first)
     IN /\ last.status = "500"
        /\ orders = Append(last.pre.orders, NewOrder(id))
        /\ Len(orderItems) >= Len(Dk.orderItems)
        /\ SubSeq(orderItems, 1, Len(Dk.orderItems)) = Dk.orderItems
        /\ Len(stockMovements) >= Len(Dk.stockMovements)
        /\ SubSeq(stockMovements, 1, Len(Dk.stockMovements))
             = Dk.stockMovements
        /\ \A p \in DOMAIN products :
             ItemQuantity(<<last.items[last.k]>>, p) = 0
             => /\ products[p] = Dk.products[p]
                /\ NowStats(p) = getStockStatsByProduct(Dk, p)
        /\ \A p \in DOMAIN products :
             NowStats(p) # <<>>
             => NowStats(p)[1].sold
                  >= PreStats(p)[1].sold + ItemQuantity(first, p)
        /\ last.w = 1 => DB = Dk

\* C30 witness: an order of two items of an existing product with a stats
\* row failed at the product update of its second item; the order row, both
\* order items and the first item's movement and sold count are persisted.
C30_Witness ==
  /\ Did("createOrderFailing")
  /\ last.k = 2
  /\ last.w = 2
  /\ Existed(last.items[1].productId)
  /\ PreStats(last.items[1].productId) # <<>>
  /\ Len(orders) = Len(last.pre.orders) + 1
  /\ Len(orderItems) = Len(last.pre.orderItems) + 2
  /\ Len(stockMovements) = Len(last.pre.stockMovements) + 1
  /\ NowStats(last.items[1].productId)[1].sold
       = PreStats(last.items[1].productId)[1].sold
           + last.items[1].quantity
  /\ products[last.items[1].productId].stockQuantity
       < PreStock(last.items[1].productId)

\* C23: SKU is a unique key: in every state reached by POST /api/products
\* and PATCH /api/products/:id requests, however they interleave, no two
\* product rows have the same sku.
C23_SkuUnique ==
  \A p, q \in DOMAIN products :
    p # q => products[p].sku # products[q].sku

\* C24: there is at most one stats row per product in every reachable
\* state, also when getStockStats runs between the product insert and the
\* initializeStockStats of a createProduct.
C24_OneStatsRowPerProduct ==
  \A i, j \in DOMAIN stockStats :
    stockStats[i].productId = stockStats[j].productId => i = j

\* C27: for every product's stats row, sold, returned and purchased never
\* decrease from one state to the next while the row exists, under any
\* interleaving of createOrder, createReturn, createStockMovement and
\* getStockStats.
C27_CountersNeverDecrease ==
  [][\A i \in DOMAIN stockStats :
       (i \in DOMAIN stockStats'
        /\ stockStats'[i].productId = stockStats[i].productId)
         => /\ stockStats'[i].sold >= stockStats[i].sold
            /\ stockStats'[i].returned >= stockStats[i].returned
            /\ stockStats'[i].purchased >= stockStats[i].purchased]_vars

\* C28: available, sold, returned and purchased of every stats row are
\* non-negative in every reachable state, the states in the middle of a
\* createOrder or createReturn that getStockStats runs alongside included.
C28_StatsNonNegative ==
  \A i \in DOMAIN stockStats :
    /\ stockStats[i].available >= 0
    /\ stockStats[i].sold >= 0
    /\ stockStats[i].returned >= 0
    /\ stockStats[i].purchased >= 0

\* Request i runs the updateProduct of createOrder, lines 245-249
OrderWrites(i) ==
  /\ procs[i].op = "createOrder"
  /\ procs[i].pc = "updateProduct"
  /\ procs'[i] # procs[i]

\* C31: two concurrent createOrder calls on one product can both read the
\* same stockQuantity before either writes, and nothing prevents the lost
\* update: each writes the stock it read less its quantity, whatever has
\* been written to the row since it read.
C31_OrderWritesFromItsRead ==
  [][\A i \in Requests :
       OrderWrites(i)
         => products'[procs[i].item.productId].stockQuantity
              = procs[i].product[1].stockQuantity - procs[i].item.quantity]_vars

\* Both orders are through, both found the product and made their sale
\* movement, and the stock is what one of them alone leaves
C31_Witness ==
  /\ \A i \in Requests : procs[i] = Done
  /\ last.op = "createProduct"
  /\ Len(orders) = 2
  /\ Len(orderItems) = 2
  /\ Len(stockMovements) = 2
  /\ orderItems[1].quantity = orderItems[2].quantity
  /\ 1 \in DOMAIN products
  /\ products[1].stockQuantity
       = last.stockQuantity - 2 * orderItems[1].quantity
  /\ products[1].stockQuantity > 0

\* C39: no operation writes a negative stockQuantity to a product row: in
\* every reachable state, the states between the steps of a createOrder or
\* createReturn in flight included, every product's stockQuantity is >= 0.
C39_StockNeverNegative ==
  \A p \in DOMAIN products : products[p].stockQuantity >= 0

\* C35: after any sequence of useDiscountCode calls on codes created with a
\* positive balance, every code still stored has a balance above 0.01: a
\* code whose balance would drop to 0.01 or less is never stored.  Stated
\* of the code a redemption has just been made of.
C35_StoredBalanceAboveEpsilon ==
  (/\ last.op = "useDiscountCode"
   /\ last.result.wasFound
   /\ last.result.error = "none")
  => \A i \in DOMAIN discountCodes :
       discountCodes[i].code = last.code
         => discountCodes[i].amount > Epsilon

\* What the finished requests 1..n redeemed of the code
RECURSIVE RedeemedUpTo(_, _)
RedeemedUpTo(code, n) ==
  IF n = 0 THEN 0
  ELSE RedeemedUpTo(code, n - 1)
       + (IF procs[n].op = "redeemed" /\ procs[n].code = code
          THEN procs[n].amount ELSE 0)

\* C38: the amounts of the successful redemptions of a discount code never
\* add up to more than the balance the code was created with, two
\* useDiscountCode calls interleaving between their read of the balance and
\* their update or delete included.  Stated of the code created last.
C38_RedeemedWithinBalance ==
  last.op = "createDiscountCode"
    => RedeemedUpTo(last.code, MaxRequests) <= last.amount

\* The last call is a createStockMovement for a productId no product has
MovementOfNoProduct ==
  /\ last.op = "createStockMovement"
  /\ last.movement.productId \notin DOMAIN last.pre.products

\* C32: createStockMovement for a productId that matches no product still
\* appends the movement (the row it returns), and changes no product row
\* and no stats row.
C32_MovementOfNoProductIsRecorded ==
  MovementOfNoProduct
    => /\ stockMovements = Append(last.pre.stockMovements, last.movement)
       /\ products = last.pre.products
       /\ stockStats = last.pre.stockStats

C32_Witness ==
  /\ MovementOfNoProduct
  /\ Len(stockMovements) = Len(last.pre.stockMovements) + 1
  /\ stockMovements[Len(stockMovements)].productId \notin DOMAIN products

\* What a movement makes of a stock when the ledger is replayed: in adds
\* the quantity, out subtracts it clamped at 0, adjustment sets it
ApplyMovement(stock, m) ==
  CASE m.type = "in"         -> stock + m.quantity
    [] m.type = "out"        -> Max(0, stock - m.quantity)
    [] m.type = "adjustment" -> m.quantity
    [] OTHER                 -> stock

RECURSIVE Replay(_, _)
Replay(stock, ledger) ==
  IF ledger = <<>> THEN stock
  ELSE Replay(ApplyMovement(stock, Head(ledger)), Tail(ledger))

\* The movements of the product that the last call appended
NewMovements(p) ==
  SelectSeq(SubSeq(stockMovements, Len(last.pre.stockMovements) + 1,
                   Len(stockMovements)),
            LAMBDA m : m.productId = p)

\* C36: after any serial sequence of createProduct, createOrder,
\* createReturn and createStockMovement on existing products, each
\* product's stockQuantity is what replaying its movement ledger from its
\* initial stock gives.  Stated call by call: the stock a call leaves is
\* the replay, from the stock it found, of the movements it appended.
C36_StockIsLedgerReplay ==
  last.op \in {"createOrder", "createReturn", "createStockMovement"}
    => \A p \in DOMAIN products \cap DOMAIN last.pre.products :
         products[p].stockQuantity
           = Replay(last.pre.products[p].stockQuantity, NewMovements(p))

\* The quantities of the movements of the product with the reason, summed
RECURSIVE LedgerQuantity(_, _, _)
LedgerQuantity(ledger, p, reason) ==
  IF ledger = <<>> THEN 0
  ELSE LedgerQuantity(Tail(ledger), p, reason)
       + (IF Head(ledger).productId = p /\ Head(ledger).reason = reason
          THEN Head(ledger).quantity ELSE 0)

\* C37: the stats counters are reconstructable from the ledger: after any
\* serial sequence of operations on a product that has had a stats row
\* since its creation, stats.sold is the sum of the quantities of its
\* movements with reason 'sale' and stats.returned that of its movements
\* with reason 'return'.
C37_CountersAreLedgerSums ==
  \A i \in DOMAIN stockStats :
    /\ stockStats[i].sold
         = LedgerQuantity(stockMovements, stockStats[i].productId, "sale")
    /\ stockStats[i].returned
         = LedgerQuantity(stockMovements, stockStats[i].productId, "return")

\* create-return-dialog.tsx, line 795: the value of the 'New Purchase'
\* option of the stock movement dialog
NewPurchaseReason == "Purchase"

\* C40: a stock-in movement recorded through the stock movement dialog
\* with the 'New Purchase' reason raises the product's stats.purchased by
\* the movement quantity.
C40_NewPurchaseCountsAsPurchased ==
  (/\ last.op = "createStockMovement"
   /\ last.movement.type = "in"
   /\ last.movement.reason = NewPurchaseReason
   /\ last.movement.productId \in DOMAIN last.pre.products)
  => \A i \in DOMAIN last.pre.stockStats :
       last.pre.stockStats[i].productId = last.movement.productId
         => stockStats[i].purchased
              = last.pre.stockStats[i].purchased + last.movement.quantity

\* C33: updateOrder changes only the order row: product stock, stats rows
\* and the movement ledger are as any updateOrder found them, so editing an
\* order never applies its stock effects again.
C33_UpdateOrderTouchesOrderOnly ==
  last.op = "updateOrder"
    => /\ products = last.pre.products
       /\ stockStats = last.pre.stockStats
       /\ stockMovements = last.pre.stockMovements
       /\ orderItems = last.pre.orderItems
       /\ DOMAIN orders = DOMAIN last.pre.orders
       /\ \A i \in DOMAIN orders :
            orders[i].id # last.id => orders[i] = last.pre.orders[i]

\* An order with an item of an existing product has got another status
C33_Witness ==
  /\ last.op = "updateOrder"
  /\ \E i \in DOMAIN orders :
       /\ orders[i].id = last.id
       /\ orders[i].status = last.status
       /\ orders[i].status # last.pre.orders[i].status
  /\ \E k \in DOMAIN orderItems :
       /\ orderItems[k].orderId = last.id
       /\ orderItems[k].productId \in DOMAIN products

\* The discount code the last POST /api/returns minted, if any
MintedCode ==
  SubSeq(discountCodes, Len(last.preCodes) + 1, Len(discountCodes))

\* C34: POST /api/returns mints a discount code exactly when the submitted
\* creditAmount is greater than 0 and a customerEmail is present, and the
\* minted code has a positive balance equal to the credit amount.  The
\* requests whose discount code insert throws are left aside.
C34_MintsPositiveCreditOnly ==
  (last.op = "postReturn" /\ ~last.codeFail)
  => LET credit == CreditAmount(last.body.creditAmount)
     IN /\ (MintedCode # <<>>) <=> (credit > 0 /\ last.body.customerEmail)
        /\ MintedCode # <<>>
             => /\ Len(MintedCode) = 1
                /\ MintedCode[1].amount > 0
                /\ MintedCode[1].amount = credit

====
